---- MODULE Spec2Model ----
(***************************************************************************)
(* Character animation state machine and controller of src/world.ts.       *)
(*                                                                         *)
(* Units.  Time is counted in twentieths of a second (0.5 s = 10,          *)
(* 0.2 s = 4).  Velocity is counted in halves of a world unit per second,  *)
(* position in fortieths of a world unit (velocity unit x time unit), and  *)
(* the heading in quarter turns about the vertical axis.  No handler reads *)
(* the position or the orientation other than to add to them, so the model *)
(* keeps what each handler adds (the yaw, and the displacement in the      *)
(* frame of the orientation the handler started with) instead of their     *)
(* absolute values.  Frame times are                                       *)
(* multiples of 0.5 s, for which the yaw of one frame (pi * dt radians) is *)
(* a whole number of quarter turns and every product below is an integer.  *)
(*                                                                         *)
(* The three.js AnimationAction is modelled by the fields the source       *)
(* touches (time, enabled, paused, loop, clampWhenFinished, timeScale,     *)
(* weight) and by the two interpolants crossFadeFrom schedules (fade and   *)
(* warp).  An enabled, unpaused action advances by the frame time: the     *)
(* scale factor the warp interpolant applies inside the blend window is    *)
(* not modelled.                                                           *)
(***************************************************************************)
EXTENDS Integers, Sequences, FiniteSets, TLC

VARIABLES
    target,        \* BasicCharacterController._target is assigned
    pending,       \* animation loads started on the LoadingManager, not ended
    loaded,        \* keys of BasicCharacterController._animations
    animations,    \* the AnimationAction of every animation name
    currentState,  \* FiniteStateMachine.currentState
    listeners,     \* "finished" listeners of the mixer, oldest first
    entered,       \* state objects whose Enter was called and Exit was not since
    keys,          \* ControllerInput.keys
    velocity,      \* BasicCharacterController._velocity
    turned,        \* yaw added to _target.quaternion in the last handler
    moved,         \* displacement of _target.position in the last handler
    calls,         \* the hook calls made by the last handler, in order
    thrown         \* the last handler ended with an exception

vars == <<target, pending, loaded, animations, currentState, listeners,
          entered, keys, velocity, turned, moved, calls, thrown>>

(***************************************************************************)
(* Bounds of the model.                                                    *)
(***************************************************************************)
MaxListeners == 2
MaxHeld == 2
\* Largest forward speed (half units per second) and frame time (twentieths
\* of a second) the deceleration step is applied to on its own.
MaxSpeed == 50
MaxFrame == 20

\* Frame times handed to tick, and to AnimationMixer.update.
DTs == {0, 10}

\* Clip durations of the four animations (asset data).
Duration == [idle |-> 20, walking |-> 20, run |-> 10, dance |-> 20]

(***************************************************************************)
(* Names.                                                                  *)
(***************************************************************************)
STATES == {"idle", "walking", "run", "dance", "jump"}

\* The names CharacterFSM registers with _AddState.
Registered == {"idle", "walking", "run", "dance"}

\* The animations _LoadModels loads.
AnimNames == {"walking", "run", "idle", "dance"}

KeyNames == {"forward", "backward", "left", "right", "space", "shift"}

NoState == [name |-> "none", id |-> 0]

(***************************************************************************)
(* Arithmetic helpers.                                                     *)
(***************************************************************************)
Abs(x) == IF x < 0 THEN -x ELSE x

Sign(x) == IF x > 0 THEN 1 ELSE IF x < 0 THEN -1 ELSE 0

Min(a, b) == IF a <= b THEN a ELSE b

\* Division rounding toward zero.
TruncDiv(a, b) == IF a >= 0 THEN a \div b ELSE -((-a) \div b)

RECURSIVE GCD(_, _)
GCD(a, b) == IF b = 0 THEN a ELSE GCD(b, a % b)

\* The quotient a / b as a reduced fraction.
Ratio(a, b) == <<a \div GCD(a, b), b \div GCD(a, b)>>

One == <<1, 1>>

(***************************************************************************)
(* AnimationAction.                                                        *)
(***************************************************************************)
NoRamp == [on |-> FALSE, left |-> 0, to |-> <<0, 1>>]

\* An interpolant ending `dur` after now at value `to`.
Ramp(dur, to) == [on |-> TRUE, left |-> dur, to |-> to]

\* mixer.clipAction(clip): a fresh action.
NewAction ==
    [time |-> 0, enabled |-> TRUE, paused |-> FALSE, active |-> FALSE,
     loopOnce |-> FALSE, clampWhenFinished |-> FALSE,
     timeScale |-> One, weight |-> One, fade |-> NoRamp, warp |-> NoRamp]

Play(a) == [a EXCEPT !.active = TRUE]

SetEffectiveTimeScale(a, s) == [a EXCEPT !.timeScale = s, !.warp = NoRamp]

SetEffectiveWeight(a, w) == [a EXCEPT !.weight = w, !.fade = NoRamp]

Reset(a) ==
    [a EXCEPT !.paused = FALSE, !.enabled = TRUE, !.time = 0,
              !.fade = NoRamp, !.warp = NoRamp]

\* curAction.crossFadeFrom(prevAction, duration, true) on the registry.
CrossFadeFrom(anim, cur, prev, duration) ==
    [anim EXCEPT
        ![prev] = [@ EXCEPT !.fade = Ramp(duration, <<0, 1>>),
                            !.warp = Ramp(duration, Ratio(Duration[prev], Duration[cur]))],
        ![cur] = [@ EXCEPT !.fade = Ramp(duration, One),
                           !.warp = Ramp(duration, One)]]

\* The interpolant after the mixer clock moved on by dt (-1: its end is past).
Age(r, dt) ==
    IF ~r.on THEN r
    ELSE IF r.left - dt < 0 THEN [r EXCEPT !.left = -1]
    ELSE [r EXCEPT !.left = @ - dt]

Past(r, dt) == r.on /\ r.left - dt < 0

\* The action reaches the end of its clip in an update by dt.
Finishes(a, dur, dt) ==
    /\ a.active /\ a.enabled /\ ~a.paused
    /\ dt > 0 /\ a.loopOnce /\ a.time + dt >= dur

\* AnimationAction._update for a mixer update by dt.
AdvanceAction(a, dur, dt) ==
    LET aged == [a EXCEPT !.fade = Age(@, dt), !.warp = Age(@, dt)]
    IN  IF ~a.active \/ ~a.enabled THEN aged
        ELSE
        LET \* _updateTimeScale
            a1 == IF ~a.paused /\ Past(a.warp, dt)
                  THEN [aged EXCEPT !.warp = NoRamp, !.timeScale = a.warp.to,
                                    !.paused = (a.warp.to[1] = 0)]
                  ELSE aged
            delta == IF a1.paused THEN 0 ELSE dt
            \* _updateTime
            a2 == IF delta = 0 THEN a1
                  ELSE IF a1.loopOnce
                  THEN IF a1.time + delta >= dur
                       THEN IF a1.clampWhenFinished
                            THEN [a1 EXCEPT !.time = dur, !.paused = TRUE]
                            ELSE [a1 EXCEPT !.time = dur, !.enabled = FALSE]
                       ELSE [a1 EXCEPT !.time = @ + delta]
                  ELSE [a1 EXCEPT !.time = (@ + delta) % dur]
            \* _updateWeight
            a3 == IF a2.enabled /\ Past(a.fade, dt)
                  THEN [a2 EXCEPT !.fade = NoRamp,
                                  !.enabled = (a.fade.to[1] # 0)]
                  ELSE a2
        IN  a3

(***************************************************************************)
(* The machine a handler works on: the state of the FSM, the registry and  *)
(* the mixer, with the log of hook calls and the pending exception.        *)
(***************************************************************************)
Ev(ev, name, id, prev) ==
    [ev |-> ev, name |-> name, id |-> id, prev |-> prev,
     from |-> "none", time |-> 0, prevTime |-> 0, fade |-> 0,
     weight |-> One, timeScale |-> One]

Log(m, e) == [m EXCEPT !.log = Append(@, e)]

Throw(m) == [m EXCEPT !.err = TRUE]

RECURSIVE SeqRange(_)
SeqRange(s) == IF s = <<>> THEN {} ELSE {Head(s)} \cup SeqRange(Tail(s))

\* The identity of a newly constructed state object of class `name`: the
\* class with a serial number no live object of the class carries (live are
\* the active state and the owners of the registered listeners, which are
\* DanceState objects).
NewId(m, name) ==
    LET used == (IF m.cur.name = name THEN {m.cur.id} ELSE {})
                \cup (IF name = "dance" THEN SeqRange(m.lis) ELSE {})
    IN  CHOOSE i \in 1..(Cardinality(used) + 1) :
            i \notin used /\ \A j \in 1..(i - 1) : j \in used

\* What Enter leaves in the log: the blend it set up.
Entered(m, st, prev, fade) ==
    LET e == m.log[Len(m.log)]
    IN  [m EXCEPT !.log[Len(m.log)] =
            [e EXCEPT !.from = prev.name,
                      !.time = m.anim[st.name].time,
                      !.prevTime = IF prev.name \in AnimNames
                                   THEN m.anim[prev.name].time ELSE 0,
                      !.fade = fade,
                      !.weight = m.anim[st.name].weight,
                      !.timeScale = m.anim[st.name].timeScale]]

(***************************************************************************)
(* Cross-fade durations passed to crossFadeFrom.                           *)
(***************************************************************************)
IdleFade == 10
RunFade == 4
WalkFade == 10
DanceFade == 4

(***************************************************************************)
(* The states' hooks.  Each takes the machine after SetState has made the  *)
(* new state current.                                                      *)
(***************************************************************************)
IdleEnter(m, st, prevState) ==
    IF "idle" \notin m.loaded THEN Throw(m)
    ELSE IF prevState.name = "none"
    THEN Entered([m EXCEPT !.anim["idle"] = Play(@)], st, prevState, 0)
    ELSE IF prevState.name \notin m.loaded THEN Throw(m)
    ELSE
    LET a1 == [m.anim EXCEPT !["idle"] =
                  SetEffectiveWeight(
                      SetEffectiveTimeScale(
                          [@ EXCEPT !.time = 0, !.enabled = TRUE], One), One)]
        a2 == CrossFadeFrom(a1, "idle", prevState.name, IdleFade)
    IN  Entered([m EXCEPT !.anim = [a2 EXCEPT !["idle"] = Play(@)]],
                st, prevState, IdleFade)

\* A faulty variant of RunState.Enter that starts the run clip at 0 whatever
\* the previous state.
RunEnterRestart(m, st, prevState) ==
    IF prevState.name = "none" THEN Throw(m)
    ELSE IF "run" \notin m.loaded \/ prevState.name \notin m.loaded THEN Throw(m)
    ELSE
    LET a1 == [m.anim EXCEPT !["run"] =
                  SetEffectiveWeight(
                      SetEffectiveTimeScale(
                          [@ EXCEPT !.enabled = TRUE, !.time = 0], One), One)]
        a2 == CrossFadeFrom(a1, "run", prevState.name, RunFade)
    IN  Entered([m EXCEPT !.anim = [a2 EXCEPT !["run"] = Play(@)]],
                st, prevState, RunFade)

RunEnter(m, st, prevState) ==
    IF prevState.name = "none" THEN Throw(m)
    ELSE IF "run" \notin m.loaded \/ prevState.name \notin m.loaded THEN Throw(m)
    ELSE
    LET prevAction == m.anim[prevState.name]
        a1 == [m.anim EXCEPT !["run"] =
                  IF prevState.name = "walking"
                  THEN [@ EXCEPT !.enabled = TRUE,
                                 !.time = (prevAction.time * Duration["run"])
                                              \div Duration[prevState.name]]
                  ELSE SetEffectiveWeight(
                           SetEffectiveTimeScale(
                               [@ EXCEPT !.enabled = TRUE, !.time = 0], One), One)]
        a2 == CrossFadeFrom(a1, "run", prevState.name, RunFade)
    IN  Entered([m EXCEPT !.anim = [a2 EXCEPT !["run"] = Play(@)]],
                st, prevState, RunFade)

\* A faulty variant of WalkState.Enter that leaves the walk action's time,
\* weight and time scale as they are whatever the previous state.
WalkEnterNoReset(m, st, prevState) ==
    IF "walking" \notin m.loaded THEN Throw(m)
    ELSE IF prevState.name = "none"
    THEN Entered([m EXCEPT !.anim["walking"] = Play(@)], st, prevState, 0)
    ELSE IF prevState.name \notin m.loaded THEN Throw(m)
    ELSE
    LET a1 == [m.anim EXCEPT !["walking"] = [@ EXCEPT !.enabled = TRUE]]
        a2 == CrossFadeFrom(a1, "walking", prevState.name, WalkFade)
    IN  Entered([m EXCEPT !.anim = [a2 EXCEPT !["walking"] = Play(@)]],
                st, prevState, WalkFade)

WalkEnter(m, st, prevState) ==
    IF "walking" \notin m.loaded THEN Throw(m)
    ELSE IF prevState.name = "none"
    THEN Entered([m EXCEPT !.anim["walking"] = Play(@)], st, prevState, 0)
    ELSE IF prevState.name \notin m.loaded THEN Throw(m)
    ELSE
    LET prevAction == m.anim[prevState.name]
        a1 == [m.anim EXCEPT !["walking"] =
                  IF prevState.name = "run"
                  THEN [@ EXCEPT !.enabled = TRUE,
                                 !.time = (prevAction.time * Duration["walking"])
                                              \div Duration[prevState.name]]
                  ELSE SetEffectiveWeight(
                           SetEffectiveTimeScale(
                               [@ EXCEPT !.enabled = TRUE, !.time = 0], One), One)]
        a2 == CrossFadeFrom(a1, "walking", prevState.name, WalkFade)
    IN  Entered([m EXCEPT !.anim = [a2 EXCEPT !["walking"] = Play(@)]],
                st, prevState, WalkFade)

\* mixer.addEventListener("finished", this._FinishedCallback): the callback
\* is a closure of this state object, never registered before.
AddFinishedListener(lis, id) == Append(lis, id)

DanceEnter(m, st, prevState) ==
    IF "dance" \notin m.loaded THEN Throw(m)
    ELSE
    LET m1 == [m EXCEPT !.lis = AddFinishedListener(@, st.id)]
    IN  IF prevState.name = "none"
        THEN Entered([m1 EXCEPT !.anim["dance"] = Play(@)], st, prevState, 0)
        ELSE IF prevState.name \notin m.loaded THEN Throw(m1)
        ELSE
        LET a1 == [m1.anim EXCEPT !["dance"] =
                      [Reset(@) EXCEPT !.loopOnce = TRUE,
                                       !.clampWhenFinished = TRUE]]
            a2 == CrossFadeFrom(a1, "dance", prevState.name, DanceFade)
        IN  Entered([m1 EXCEPT !.anim = [a2 EXCEPT !["dance"] = Play(@)]],
                    st, prevState, DanceFade)

Enter(m, st, prevState) ==
    LET m1 == Log([m EXCEPT !.ent = @ \cup {st}],
                  Ev("Enter", st.name, st.id, prevState.id))
    IN  CASE st.name = "idle" -> IdleEnter(m1, st, prevState)
          [] st.name = "run" -> RunEnter(m1, st, prevState)
          [] st.name = "walking" -> WalkEnter(m1, st, prevState)
          [] st.name = "dance" -> DanceEnter(m1, st, prevState)

\* removeEventListener("finished", <a function created for this call>): the
\* function was never registered, so no listener is removed.
RemoveFinishedListener(lis, id) == lis

\* DanceState._Cleanup
Cleanup(m, id) ==
    IF "dance" \notin m.loaded THEN Throw(m)
    ELSE [m EXCEPT !.lis = RemoveFinishedListener(@, id)]

Exit(m, st) ==
    LET m1 == Log([m EXCEPT !.ent = @ \ {st}], Ev("Exit", st.name, st.id, 0))
    IN  CASE st.name = "run" -> IF "run" \notin m.loaded THEN Throw(m1) ELSE m1
          [] st.name = "dance" -> Cleanup(m1, st.id)
          [] OTHER -> m1

(***************************************************************************)
(* FiniteStateMachine.                                                     *)
(***************************************************************************)
\* A faulty variant of SetState that does not call the outgoing state's Exit.
SetStateNoExit(m, nameState) ==
    LET prevState == m.cur
        m0 == Log(m, Ev("SetState", nameState, 0, prevState.id))
    IN  IF prevState.name # "none" /\ prevState.name = nameState
        THEN Log(m0, Ev("Return", nameState, 0, 0))
        ELSE IF nameState \notin Registered THEN Throw(m0)
        ELSE
        LET state == [name |-> nameState, id |-> NewId(m0, nameState)]
            m2 == Enter([m0 EXCEPT !.cur = state], state, prevState)
        IN  IF m2.err THEN m2
            ELSE Log(m2, Ev("Return", nameState, 0, 0))

\* A faulty variant of SetState in which the Enter hook of Dance requests a
\* transition to Idle before it returns.
RECURSIVE SetStateReentrant(_, _)
SetStateReentrant(m, nameState) ==
    LET prevState == m.cur
        m0 == Log(m, Ev("SetState", nameState, 0, prevState.id))
    IN  IF prevState.name # "none" /\ prevState.name = nameState
        THEN Log(m0, Ev("Return", nameState, 0, 0))
        ELSE
        LET m1 == IF prevState.name # "none" THEN Exit(m0, prevState) ELSE m0
        IN  IF m1.err THEN m1
            ELSE IF nameState \notin Registered THEN Throw(m1)
            ELSE
            LET state == [name |-> nameState, id |-> NewId(m1, nameState)]
                m2 == Enter([m1 EXCEPT !.cur = state], state, prevState)
                m3 == IF nameState = "dance" /\ ~m2.err
                      THEN SetStateReentrant(m2, "idle") ELSE m2
            IN  IF m3.err THEN m3
                ELSE Log(m3, Ev("Return", nameState, 0, 0))

\* A faulty variant of SetState that returns when the name is not registered.
SetStateSilent(m, nameState) ==
    LET prevState == m.cur
        m0 == Log(m, Ev("SetState", nameState, 0, prevState.id))
    IN  IF (prevState.name # "none" /\ prevState.name = nameState)
           \/ nameState \notin Registered
        THEN Log(m0, Ev("Return", nameState, 0, 0))
        ELSE
        LET m1 == IF prevState.name # "none" THEN Exit(m0, prevState) ELSE m0
        IN  IF m1.err THEN m1
            ELSE
            LET state == [name |-> nameState, id |-> NewId(m1, nameState)]
                m2 == Enter([m1 EXCEPT !.cur = state], state, prevState)
            IN  IF m2.err THEN m2
                ELSE Log(m2, Ev("Return", nameState, 0, 0))

\* A faulty variant of SetState without the guard on the active state's name.
SetStateNoGuard(m, nameState) ==
    LET prevState == m.cur
        m0 == Log(m, Ev("SetState", nameState, 0, prevState.id))
        m1 == IF prevState.name # "none" THEN Exit(m0, prevState) ELSE m0
    IN  IF m1.err THEN m1
        ELSE IF nameState \notin Registered THEN Throw(m1)
        ELSE
        LET state == [name |-> nameState, id |-> NewId(m1, nameState)]
            m2 == Enter([m1 EXCEPT !.cur = state], state, prevState)
        IN  IF m2.err THEN m2
            ELSE Log(m2, Ev("Return", nameState, 0, 0))

SetState(m, nameState) ==
    LET prevState == m.cur
        m0 == Log(m, Ev("SetState", nameState, 0, prevState.id))
    IN  IF prevState.name # "none" /\ prevState.name = nameState
        THEN Log(m0, Ev("Return", nameState, 0, 0))
        ELSE
        LET m1 == IF prevState.name # "none" THEN Exit(m0, prevState) ELSE m0
        IN  IF m1.err THEN m1
            ELSE IF nameState \notin Registered THEN Throw(m1)
            ELSE
            LET state == [name |-> nameState, id |-> NewId(m1, nameState)]
                m2 == Enter([m1 EXCEPT !.cur = state], state, prevState)
            IN  IF m2.err THEN m2
                ELSE Log(m2, Ev("Return", nameState, 0, 0))

\* A faulty variant of IdleState.Update that starts running at once when the
\* modifier is held.
IdleUpdateRuns(m, input) ==
    IF input.forward \/ input.backward
    THEN SetState(m, IF input.shift THEN "run" ELSE "walking")
    ELSE IF input.space THEN SetState(m, "dance")
    ELSE m

IdleUpdate(m, input) ==
    IF input.forward \/ input.backward THEN SetState(m, "walking")
    ELSE IF input.space THEN SetState(m, "dance")
    ELSE m

RunUpdate(m, input) ==
    IF input.forward \/ input.backward
    THEN IF ~input.shift THEN SetState(m, "walking") ELSE m
    ELSE SetState(m, "idle")

\* A faulty variant of WalkState.Update that runs without the modifier.
WalkUpdateNoShift(m, input) ==
    IF input.forward \/ input.backward
    THEN SetState(m, "run")
    ELSE SetState(m, "idle")

WalkUpdate(m, input) ==
    IF input.forward \/ input.backward
    THEN IF input.shift THEN SetState(m, "run") ELSE m
    ELSE SetState(m, "idle")

\* A faulty variant of DanceState.Update that lets the movement keys end
\* the dance.
DanceUpdateWalks(m, input) ==
    IF input.forward \/ input.backward THEN SetState(m, "walking") ELSE m

DanceUpdate(m, input) == m

\* FiniteStateMachine.Update
Update(m, input) ==
    IF m.cur.name = "none" THEN m
    ELSE
    LET m1 == Log(m, Ev("Update", m.cur.name, m.cur.id, 0))
    IN  CASE m.cur.name = "idle" -> IdleUpdate(m1, input)
          [] m.cur.name = "run" -> RunUpdate(m1, input)
          [] m.cur.name = "walking" -> WalkUpdate(m1, input)
          [] m.cur.name = "dance" -> DanceUpdate(m1, input)

\* DanceState._Finished of the state object `id`.
Finished(m, id) ==
    LET m1 == Cleanup(Log(m, Ev("_Finished", "dance", id, 0)), id)
    IN  IF m1.err THEN m1 ELSE SetState(m1, "idle")

\* mixer.dispatchEvent({type: "finished"}) to a copy of the listener list.
RECURSIVE DispatchFinished(_, _)
DispatchFinished(m, ls) ==
    IF ls = <<>> \/ m.err THEN m
    ELSE DispatchFinished(Finished(m, Head(ls)), Tail(ls))

\* A faulty variant of the mixer update that dispatches no finished event.
MixerUpdateSilent(m, dt) ==
    [m EXCEPT !.anim =
        [n \in DOMAIN m.anim |->
            IF n \in m.loaded
            THEN AdvanceAction(m.anim[n], Duration[n], dt)
            ELSE m.anim[n]]]

\* AnimationMixer.update(dt): every action is advanced; the action that
\* reaches the end of a LoopOnce clip dispatches "finished".
MixerUpdate(m, dt) ==
    LET fin == \E n \in m.loaded : Finishes(m.anim[n], Duration[n], dt)
        m1 == [m EXCEPT !.anim =
                  [n \in DOMAIN m.anim |->
                      IF n \in m.loaded
                      THEN AdvanceAction(m.anim[n], Duration[n], dt)
                      ELSE m.anim[n]]]
    IN  IF fin THEN DispatchFinished(m1, m1.lis) ELSE m1

(***************************************************************************)
(* BasicCharacterController: constants of the kinematics.                  *)
(***************************************************************************)
\* _acceleration.z, world units per second squared.
AccelerationZ == 25
\* -_decceleration.z, per second.
DeccelerationZ == 5

\* Forward (0,0,1) and sideways (1,0,0) after h quarter turns about the
\* vertical axis, as (x, z).
Forward(h) ==
    CASE h = 0 -> [x |-> 0, z |-> 1]
      [] h = 1 -> [x |-> 1, z |-> 0]
      [] h = 2 -> [x |-> 0, z |-> -1]
      [] h = 3 -> [x |-> -1, z |-> 0]

Sideways(h) == Forward((h + 1) % 4)

\* Quarter turns of the yaw 4 * PI * dt * _acceleration.y, _acceleration.y = 1/4.
Yaw(dt) == dt \div 10

\* A faulty variant of the deceleration step without the clamp on z.
DeccelerateUnclamped(v, dt) ==
    LET fx == TruncDiv(v.x * (-5) * dt, 10000 * 20)
        fy == TruncDiv(v.y * (-1) * dt, 10000 * 20)
        fz == TruncDiv(v.z * (-DeccelerationZ) * dt, 20)
    IN  [x |-> v.x + fx, y |-> v.y + fy, z |-> v.z + fz]

\* velocity after the frame's deceleration (tick, lines 498-509).  The x and
\* y constants are -0.0005 and -0.0001.
Deccelerate(v, dt) ==
    LET fx == TruncDiv(v.x * (-5) * dt, 10000 * 20)
        fy == TruncDiv(v.y * (-1) * dt, 10000 * 20)
        fz == TruncDiv(v.z * (-DeccelerationZ) * dt, 20)
        cz == Sign(fz) * Min(Abs(fz), Abs(v.z))
    IN  [x |-> v.x + fx, y |-> v.y + fy, z |-> v.z + cz]

\* A faulty variant of the frame's acceleration that Dance does not zero.
FrameAccelerationInDance(stateName, input) ==
    IF input.shift THEN 4 * AccelerationZ ELSE 2 * AccelerationZ

\* acc.z of the frame, in velocity units per second (tick, lines 516-526).
FrameAcceleration(stateName, input) ==
    LET a0 == 2 * AccelerationZ
        a1 == IF input.shift THEN 2 * a0 ELSE a0
    IN  IF stateName = "dance" THEN 0 ELSE a1

\* A faulty variant of the key acceleration that adds a fixed step per frame
\* instead of acc.z * timeInSeconds.
AccelerateFixedStep(v, acc, input, dt) ==
    LET dv == TruncDiv(acc, 20)
        z1 == IF input.forward THEN v.z + dv ELSE v.z
        z2 == IF input.backward THEN z1 - dv ELSE z1
    IN  [v EXCEPT !.z = z2]

\* velocity after the forward and backward keys (tick, lines 528-533).
Accelerate(v, acc, input, dt) ==
    LET dv == TruncDiv(acc * dt, 20)
        z1 == IF input.forward THEN v.z + dv ELSE v.z
        z2 == IF input.backward THEN z1 - dv ELSE z1
    IN  [v EXCEPT !.z = z2]

\* Quarter turns added to the heading by the left and right keys (tick,
\* lines 534-551).
Turn(input, dt) ==
    LET h1 == IF input.left THEN Yaw(dt) ELSE 0
        h2 == IF input.right THEN h1 - Yaw(dt) ELSE h1
    IN  h2 % 4

\* Displacement added to the position (tick, lines 556-568).
Move(h, v, dt) ==
    [x |-> Forward(h).x * (v.z * dt) + Sideways(h).x * (v.x * dt),
     z |-> Forward(h).z * (v.z * dt) + Sideways(h).z * (v.x * dt)]

Still == [x |-> 0, z |-> 0]

(***************************************************************************)
(* Handlers.                                                               *)
(***************************************************************************)
\* The machine at the start of a handler whose log starts with `first`.
Machine(first, registry) ==
    [cur |-> currentState, anim |-> animations, lis |-> listeners,
     ent |-> entered, loaded |-> registry, log |-> first, err |-> FALSE]

Commit(m) ==
    /\ Len(m.lis) <= MaxListeners
    /\ currentState' = m.cur
    /\ animations' = m.anim
    /\ listeners' = m.lis
    /\ entered' = m.ent
    /\ calls' = m.log
    /\ thrown' = m.err

\* The handler leaves the FSM, the registry and the mixer alone.
NoCalls(first) ==
    /\ calls' = first
    /\ thrown' = FALSE
    /\ UNCHANGED <<currentState, animations, listeners, entered>>

\* The handler leaves the target where it is.
Stays ==
    /\ moved' = Still
    /\ turned' = 0
    /\ UNCHANGED velocity

Init ==
    /\ target = FALSE
    /\ pending = {}
    /\ loaded = {}
    /\ animations = [n \in AnimNames |-> NewAction]
    /\ currentState = NoState
    /\ listeners = <<>>
    /\ entered = {}
    /\ keys = [k \in KeyNames |-> FALSE]
    /\ velocity = [x |-> 0, y |-> 0, z |-> 0]
    /\ turned = 0
    /\ moved = Still
    /\ calls = <<>>
    /\ thrown = FALSE

\* The model file is loaded: the target and the mixer exist, and the four
\* animation loads start on a new LoadingManager (lines 444-487).
ModelLoaded ==
    /\ ~target
    /\ target' = TRUE
    /\ pending' = AnimNames
    /\ NoCalls(<<>>)
    /\ Stays
    /\ UNCHANGED <<loaded, keys>>

\* A faulty variant of the load completion, whose manager calls onLoad at
\* every completion.
AnimLoadedEager(n) ==
    /\ n \in pending
    /\ pending' = pending \ {n}
    /\ loaded' = loaded \cup {n}
    /\ LET m0 == [Machine(<<>>, loaded \cup {n}) EXCEPT !.anim[n] = NewAction]
       IN  Commit(SetState(m0, "idle"))
    /\ Stays
    /\ UNCHANGED <<target, keys>>

\* One animation load completes: _OnLoad stores the entry, then the manager
\* counts the item and calls onLoad once no item is left (lines 456-471).
AnimLoaded(n) ==
    /\ n \in pending
    /\ pending' = pending \ {n}
    /\ loaded' = loaded \cup {n}
    /\ LET m0 == [Machine(<<>>, loaded \cup {n}) EXCEPT !.anim[n] = NewAction]
       IN  Commit(IF pending = {n} THEN SetState(m0, "idle") ELSE m0)
    /\ Stays
    /\ UNCHANGED <<target, keys>>

\* ControllerInput._onKeyDown
KeyDown(k) ==
    /\ Cardinality({j \in KeyNames : keys[j]} \cup {k}) <= MaxHeld
    /\ keys' = [keys EXCEPT ![k] = TRUE]
    /\ NoCalls(<<>>)
    /\ Stays
    /\ UNCHANGED <<target, pending, loaded>>

\* ControllerInput._onKeyUp
KeyUp(k) ==
    /\ keys' = [keys EXCEPT ![k] = FALSE]
    /\ NoCalls(<<>>)
    /\ Stays
    /\ UNCHANGED <<target, pending, loaded>>

\* A faulty variant of tick without the guard on _target.
TickUnguarded(dt) ==
    LET first == <<Ev("tick", "", dt, 0)>>
        m1 == Update(Machine(first, loaded), keys)
        v1 == Deccelerate(velocity, dt)
        v2 == Accelerate(v1, FrameAcceleration(m1.cur.name, keys), keys, dt)
        h2 == Turn(keys, dt)
    IN  /\ IF m1.err
           THEN Commit(m1) /\ Stays
           ELSE /\ velocity' = v2
                /\ turned' = h2
                /\ moved' = Move(h2, v2, dt)
                /\ Commit(MixerUpdate(m1, dt))
        /\ UNCHANGED <<target, pending, loaded, keys>>

\* BasicCharacterController.tick(timeInSeconds)
Tick(dt) ==
    LET first == <<Ev("tick", "", dt, 0)>>
        m1 == Update(Machine(first, loaded), keys)
        v1 == Deccelerate(velocity, dt)
        v2 == Accelerate(v1, FrameAcceleration(m1.cur.name, keys), keys, dt)
        h2 == Turn(keys, dt)
    IN  /\ IF ~target
           THEN NoCalls(first) /\ Stays
           ELSE IF m1.err
           THEN Commit(m1) /\ Stays
           ELSE /\ velocity' = v2
                /\ turned' = h2
                /\ moved' = Move(h2, v2, dt)
                /\ Commit(MixerUpdate(m1, dt))
        /\ UNCHANGED <<target, pending, loaded, keys>>

Next ==
    \/ ModelLoaded
    \/ \E n \in AnimNames : AnimLoaded(n)
    \/ \E k \in KeyNames : KeyDown(k)
    \/ \E k \in KeyNames : KeyUp(k)
    \/ \E dt \in DTs : Tick(dt)

Spec == Init /\ [][Next]_vars

\* A frame with a positive elapsed time.
PositiveTick == \E dt \in DTs \ {0} : Tick(dt)

\* The program whose animation loop keeps delivering frames with a positive
\* elapsed time (_RAF requests the next frame in every frame): such frames
\* happen again and again.
LiveSpec == Init /\ [][Next]_vars /\ []<><<PositiveTick>>_vars

(***************************************************************************)
(* The CharacterFSM on its own, with a populated registry, under every     *)
(* sequence of calls of its methods and of updates of its mixer.           *)
(***************************************************************************)
Inputs == [KeyNames -> BOOLEAN]

\* A CharacterFSM whose registry holds the four animations, before the
\* first transition.
Fresh ==
    [cur |-> NoState, anim |-> [n \in AnimNames |-> NewAction], lis |-> <<>>,
     ent |-> {}, loaded |-> AnimNames, log |-> <<>>, err |-> FALSE]

\* The variables hold machine m, with input as the keys.
Holds(m, input) ==
    /\ target = TRUE
    /\ pending = {}
    /\ loaded = m.loaded
    /\ animations = m.anim
    /\ currentState = m.cur
    /\ listeners = m.lis
    /\ entered = m.ent
    /\ keys = input
    /\ velocity = [x |-> 0, y |-> 0, z |-> 0]
    /\ turned = 0
    /\ moved = Still
    /\ calls = m.log
    /\ thrown = m.err

\* The snapshots handed to Update here: they differ in the keys the Update
\* hooks tell apart (every snapshot is handed to Update under UpdateSpec).
FsmInputs == {input \in Inputs : ~input.backward /\ ~input.left /\ ~input.right}

FsmInit == Holds(Fresh, [k \in KeyNames |-> FALSE])

FsmSetState(nameState) ==
    /\ Commit(SetState(Machine(<<>>, loaded), nameState))
    /\ Stays
    /\ UNCHANGED <<target, pending, loaded, keys>>

FsmUpdate(input) ==
    /\ Commit(Update(Machine(<<>>, loaded), input))
    /\ Stays
    /\ UNCHANGED <<target, pending, loaded, keys>>

FsmMixerUpdate(dt) ==
    /\ Commit(MixerUpdate(Machine(<<Ev("update", "", dt, 0)>>, loaded), dt))
    /\ Stays
    /\ UNCHANGED <<target, pending, loaded, keys>>

FsmNext ==
    \/ \E nameState \in STATES : FsmSetState(nameState)
    \/ \E input \in FsmInputs : FsmUpdate(input)
    \/ \E dt \in DTs : FsmMixerUpdate(dt)

FsmSpec == FsmInit /\ [][FsmNext]_vars

(***************************************************************************)
(* One FSM Update of each state, as the program enters it, with every      *)
(* input snapshot.                                                         *)
(***************************************************************************)
\* The machine once the program has entered the state `name`.
After(name) ==
    LET idle == SetState(Fresh, "idle")
        walking == SetState(idle, "walking")
    IN  CASE name = "idle" -> idle
          [] name = "walking" -> walking
          [] name = "run" -> SetState(walking, "run")
          [] name = "dance" -> SetState(idle, "dance")

UpdateInit ==
    \E name \in Registered, input \in Inputs :
        Holds([After(name) EXCEPT !.log = <<>>], input)

UpdateStep ==
    /\ Commit(Update(Machine(<<>>, loaded), keys))
    /\ Stays
    /\ UNCHANGED <<target, pending, loaded, keys>>

UpdateSpec == UpdateInit /\ [][UpdateStep]_vars

(***************************************************************************)
(* Frames (ticks) of the loaded program from each state, with every input  *)
(* snapshot and a forward velocity at rest, at walking or running speed in *)
(* either direction.                                                       *)
(***************************************************************************)
Speeds == {-MaxSpeed, -(MaxSpeed \div 2), 0, MaxSpeed \div 2, MaxSpeed}

FrameInit ==
    \E name \in Registered, input \in Inputs, vz \in Speeds :
        /\ velocity = [x |-> 0, y |-> 0, z |-> vz]
        /\ target = TRUE
        /\ pending = {}
        /\ loaded = AnimNames
        /\ animations = After(name).anim
        /\ currentState = After(name).cur
        /\ listeners = After(name).lis
        /\ entered = After(name).ent
        /\ keys = input
        /\ turned = 0
        /\ moved = Still
        /\ calls = <<>>
        /\ thrown = FALSE

FrameNext == \E dt \in DTs : Tick(dt)

FrameSpec == FrameInit /\ [][FrameNext]_vars

(***************************************************************************)
(* The deceleration step of tick on its own, on every forward velocity up  *)
(* to MaxSpeed and every frame time up to MaxFrame.                        *)
(***************************************************************************)
DecInit ==
    /\ \E vz \in (-MaxSpeed)..MaxSpeed : velocity = [x |-> 0, y |-> 0, z |-> vz]
    /\ target = TRUE
    /\ pending = {}
    /\ loaded = AnimNames
    /\ animations = After("idle").anim
    /\ currentState = After("idle").cur
    /\ listeners = <<>>
    /\ entered = {currentState}
    /\ keys = [k \in KeyNames |-> FALSE]
    /\ turned = 0
    /\ moved = Still
    /\ calls = <<>>
    /\ thrown = FALSE

\* Lines 498-509 of tick with frame time dt; the log keeps dt and the forward
\* velocity the step started with.
DecStep(dt) ==
    /\ velocity' = Deccelerate(velocity, dt)
    /\ calls' = <<Ev("decceleration", "", dt, velocity.z)>>
    /\ UNCHANGED <<target, pending, loaded, animations, currentState, listeners,
                   entered, keys, turned, moved, thrown>>

DecNext == \E dt \in 0..MaxFrame : DecStep(dt)

DecSpec == DecInit /\ [][DecNext]_vars

(***************************************************************************)
(* Properties.                                                             *)
(***************************************************************************)
\* The positions of the log of the last handler that hold event `ev`.
At(ev) == {i \in 1..Len(calls) : calls[i].ev = ev}

\* The log of the last handler calls SetState at i with an active state of
\* another name.
Replaces(log, i) ==
    /\ log[i].ev = "SetState"
    /\ log[i].prev # 0
    /\ ~(i < Len(log) /\ log[i + 1].ev = "Return")

\* The hooks around position i of the log are those of one replacement: the
\* Exit of the outgoing object, once, then the Enter of a state of the
\* requested name, handed that object.
ExitThenEnter(log, i) ==
    /\ i + 1 <= Len(log)
    /\ log[i + 1].ev = "Exit"
    /\ log[i + 1].id = log[i].prev
    /\ log[i + 1].name # log[i].name
    /\ log[i].name \in Registered =>
          /\ i + 2 <= Len(log)
          /\ log[i + 2].ev = "Enter"
          /\ log[i + 2].name = log[i].name
          /\ log[i + 2].prev = log[i + 1].id
          /\ log[i + 2].from = log[i + 1].name

\* C1: under every sequence of SetState calls at most one state is active
\* (entered and not exited), and it is currentState; a call that replaces the
\* active state by one of another name calls Exit of the outgoing object (the
\* one that was currentState) exactly once, and before the Enter of the
\* incoming state, which gets the outgoing object as its previous state.
C1_OneActiveExitBeforeEnter ==
    /\ [](/\ Cardinality(entered) <= 1
          /\ entered \subseteq {currentState}
          /\ \A i \in At("SetState") : Replaces(calls, i) => ExitThenEnter(calls, i)
          /\ \A i \in At("Exit") : i > 1 /\ Replaces(calls, i - 1)
          /\ \A i \in At("Enter") :
                calls[i].prev # 0 => i > 2 /\ Replaces(calls, i - 2))
    /\ [][\A i \in 1..Len(calls') :
            (/\ calls'[i].ev = "SetState"
             /\ \A j \in 1..(i - 1) : calls'[j].ev # "SetState"
             /\ currentState # NoState
             /\ calls'[i].name # currentState.name)
            => /\ Replaces(calls', i)
               /\ calls'[i + 1].name = currentState.name
               /\ calls'[i + 1].id = currentState.id
               /\ calls'[i].name \in Registered
                    => /\ currentState'.name = calls'[i].name
                       /\ entered' = {currentState'}]_vars

\* A replacement happened: Dance was exited and Idle entered with the Dance
\* object as its previous state.
C1_Witness ==
    \E i \in At("Enter") :
        calls[i].prev # 0 /\ calls[i].from = "dance" /\ calls[i].name = "idle"

\* C2: SetState with the name of the active state calls no hook, keeps the
\* active state object and leaves every animation action (time, weight, time
\* scale, cross-fade) and the mixer's listeners as they are.
C2_SameNameIsNoOp ==
    [][(/\ calls' # <<>>
        /\ calls'[1].ev = "SetState"
        /\ currentState # NoState
        /\ calls'[1].name = currentState.name)
       => /\ calls' = <<Ev("SetState", currentState.name, 0, currentState.id),
                        Ev("Return", currentState.name, 0, 0)>>
          /\ ~thrown'
          /\ UNCHANGED <<currentState, animations, listeners, entered>>]_vars

\* SetState("run") was called while Run was active and blending in.
C2_Witness ==
    /\ Len(calls) = 2
    /\ calls[1].ev = "SetState"
    /\ calls[1].name = "run"
    /\ currentState.name = "run"
    /\ animations["run"].fade.on

\* The transition table of the specification, rows tested top to bottom.
Table(state, input) ==
    LET move == input.forward \/ input.backward
    IN  CASE state = "idle" /\ move -> "walking"
          [] state = "idle" /\ ~move /\ input.space -> "dance"
          [] state = "walking" /\ move /\ input.shift -> "run"
          [] state = "walking" /\ ~move -> "idle"
          [] state = "run" /\ move /\ ~input.shift -> "walking"
          [] state = "run" /\ ~move -> "idle"
          [] OTHER -> state

\* C3: for every active state and every input snapshot, the state after one
\* Update is the one of the transition table, and it is the same whatever
\* the left and right keys are.
C3_UpdateFollowsTable ==
    [][/\ currentState'.name = Table(currentState.name, keys)
       /\ \A l, r \in BOOLEAN :
            Update(Machine(<<>>, loaded),
                   [keys EXCEPT !.left = l, !.right = r]).cur = currentState']_vars

\* Walking went to Run with forward, the modifier and left held.
C3_Witness ==
    /\ calls # <<>>
    /\ calls[1].ev = "Update"
    /\ calls[1].name = "walking"
    /\ currentState.name = "run"
    /\ keys.forward /\ keys.shift /\ keys.left

\* C4: an Update of Dance calls nothing, whatever the keys; Dance stops being
\* the active state only in a handler that ran the finished handler, and
\* after the finished handler Idle is active, whatever the keys.
C4_DanceLeftOnlyByFinished ==
    [][/\ currentState.name = "dance" =>
            \/ currentState' = currentState
            \/ /\ currentState'.name = "idle"
               /\ \E i \in 1..Len(calls') : calls'[i].ev = "_Finished"
       /\ \A i \in 1..Len(calls') :
            /\ (calls'[i].ev = "Update" /\ calls'[i].name = "dance")
                 => (i = Len(calls') \/ calls'[i + 1].ev = "_Finished")
            /\ calls'[i].ev = "_Finished"
                 => (currentState'.name = "idle" /\ ~thrown')]_vars

\* The dance finished while forward and the modifier were held.
C4_Witness ==
    /\ At("_Finished") # {}
    /\ currentState.name = "idle"
    /\ keys.forward /\ keys.shift

\* C5: a completion of the dance clip invokes the finished handler once, and
\* makes one transition to Idle (one Exit of Dance, one Enter of Idle).
C5_FinishedOncePerCompletion ==
    At("_Finished") # {} =>
        /\ Cardinality(At("_Finished")) = 1
        /\ Cardinality({i \in At("Exit") : calls[i].name = "dance"}) = 1
        /\ Cardinality({i \in At("Enter") : calls[i].name = "idle"}) = 1

\* C6: no finished listener is registered on the mixer unless Dance is
\* active, and never more than one.
C6_ListenersBounded ==
    /\ Len(listeners) <= 1
    /\ currentState.name # "dance" => Len(listeners) = 0

\* C7: whatever the order of the loads, no state is active and no transition
\* is made before the four animations are in the registry; the first
\* transition is into Idle with no previous state, and plays the idle action
\* with no cross-fade.
C7_NoTransitionBeforeAllLoaded ==
    /\ loaded # AnimNames =>
          /\ currentState = NoState
          /\ At("SetState") \cup At("Enter") \cup At("Exit") = {}
    /\ \A i \in At("SetState") :
          calls[i].prev = 0 =>
             /\ loaded = AnimNames
             /\ calls = <<Ev("SetState", "idle", 0, 0),
                          Ev("Enter", "idle", currentState.id, 0),
                          Ev("Return", "idle", 0, 0)>>
             /\ currentState.name = "idle"
             /\ ~thrown
             /\ animations = [n \in AnimNames |->
                                 IF n = "idle" THEN Play(NewAction) ELSE NewAction]

\* The last load to complete was the idle animation's, and Idle was entered.
C7_Witness ==
    /\ calls # <<>>
    /\ calls[1] = Ev("SetState", "idle", 0, 0)
    /\ currentState.name = "idle"
    /\ animations["idle"].active

\* C8: a tick without a target does nothing, whatever the frame time and the
\* keys: no FSM Update, and velocity, position, orientation and the actions
\* of the mixer stay as they are.
C8_TickWithoutTarget ==
    [][(~target /\ calls' # <<>> /\ calls'[1].ev = "tick")
       => /\ Len(calls') = 1
          /\ ~thrown'
          /\ moved' = Still
          /\ turned' = 0
          /\ UNCHANGED <<velocity, animations, currentState, listeners,
                         entered>>]_vars

\* A tick of 0.5 s ran without a target while forward and left were held.
C8_Witness ==
    /\ ~target
    /\ calls = <<Ev("tick", "", 10, 0)>>
    /\ keys.forward /\ keys.left

\* The cross-fade durations of the specification: 0.2 s into Dance and
\* between Walking and Run, 0.5 s into or out of Idle.
ClaimedFade(from, to) ==
    IF to = "dance" THEN 4
    ELSE IF from = "idle" \/ to = "idle" THEN 10
    ELSE 4

\* C9: every Enter with a previous state cross-fades over 0.5 s into or out
\* of Idle and over 0.2 s between Walking and Run and into Dance.
C9_FadeDurations ==
    \A i \in At("Enter") :
        calls[i].from # "none" =>
            calls[i].fade = ClaimedFade(calls[i].from, calls[i].name)

\* C10: entering Run from Walking or Walking from Run, the incoming action
\* starts at the outgoing action's time times the ratio of the incoming to
\* the outgoing clip duration, and not at 0 unless the outgoing time is 0.
C10_PhasePreserved ==
    \A i \in At("Enter") :
        {calls[i].from, calls[i].name} = {"walking", "run"} =>
            /\ calls[i].time * Duration[calls[i].from]
                  = calls[i].prevTime * Duration[calls[i].name]
            /\ calls[i].prevTime # 0 => calls[i].time # 0

\* Run was entered half way through its clip, Walking being half way
\* through its own.
C10_Witness ==
    \E i \in At("Enter") :
        /\ calls[i].name = "run" /\ calls[i].from = "walking"
        /\ calls[i].prevTime = 10 /\ calls[i].time = 5

Ticked(log) == log # <<>> /\ log[1].ev = "tick" /\ target

\* C12 (as stated): a tick that starts with Dance active leaves the velocity
\* as it was, whatever keys are held.
C12_VelocityUnchangedInDance ==
    [][(Ticked(calls') /\ currentState.name = "dance")
       => velocity' = velocity]_vars

\* C12 (amended): in a tick that starts with Dance active the keys add
\* nothing to the velocity: the velocity after the tick is the one the
\* frame's deceleration alone gives, and a zero velocity stays zero.
C12_KeysAddNothingInDance ==
    [][(Ticked(calls') /\ currentState.name = "dance")
       => /\ velocity' = Deccelerate(velocity, calls'[1].id)
          /\ velocity.z = 0 => velocity'.z = 0]_vars

\* A tick of 0.5 s ran in Dance with forward and the modifier held.
C12_Witness ==
    /\ Ticked(calls)
    /\ calls[1].id = 10
    /\ Len(calls) = 2
    /\ calls[2].ev = "Update" /\ calls[2].name = "dance"
    /\ keys.forward /\ keys.shift

\* C13: once Dance is active, frames with a positive elapsed time lead to
\* Idle being active, whatever key events happen or do not happen meanwhile.
C13_DanceLeadsToIdle ==
    (currentState.name = "dance") ~> (currentState.name = "idle")

\* The tick in which the dance clip completed, with no key held.
C13_Witness ==
    /\ Ticked(calls)
    /\ At("_Finished") # {}
    /\ currentState.name = "idle"
    /\ \A k \in KeyNames : ~keys[k]

\* C14: a SetState with a name that is not registered ends with an
\* exception: it does not return.
C14_UnregisteredNameThrows ==
    \A i \in At("SetState") :
        calls[i].name \notin Registered =>
            /\ thrown
            /\ \A j \in At("Return") : j < i

\* SetState("jump") was called while Walking was active, and threw.
C14_Witness ==
    /\ calls # <<>>
    /\ calls[1].ev = "SetState" /\ calls[1].name = "jump"
    /\ currentState.name = "walking"
    /\ thrown

\* The positions after i of the log where a SetState call starts or returns.
CallsAfter(i) == {j \in At("SetState") \cup At("Return") : j > i}

\* C15: no SetState call starts inside another: after the start of a call
\* the next start or return is that call's return (none if it threw), every
\* Exit and Enter is called by the SetState call that started last, and a
\* transition leaves exactly the new state entered.
C15_NoReentrantSetState ==
    /\ \A i \in At("SetState") :
          /\ CallsAfter(i) # {} =>
                \E j \in CallsAfter(i) :
                    /\ calls[j].ev = "Return"
                    /\ \A k \in CallsAfter(i) : j <= k
          /\ CallsAfter(i) = {} => (thrown \/ calls[Len(calls)].ev = "Return")
    /\ \A i \in At("Exit") \cup At("Enter") :
          \E j \in At("SetState") :
              /\ j < i
              /\ \A k \in At("Return") : ~(j < k /\ k < i)
    /\ Cardinality(entered) <= 1
    /\ (~thrown /\ currentState # NoState) => entered = {currentState}

\* A handler made two SetState calls, one after the return of the other:
\* two finished listeners ran in one mixer update.
C15_Witness ==
    /\ Cardinality(At("SetState")) = 2
    /\ Cardinality(At("Return")) = 2
    /\ Cardinality(At("_Finished")) = 2

\* C16: for every forward velocity and every frame time >= 0, what the
\* deceleration step adds to the forward velocity opposes it and is at most
\* as large: the velocity keeps its sign (or becomes 0) and does not grow.
C16_DecelerationClamped ==
    [][LET v == velocity.z
           added == velocity'.z - velocity.z
       IN  /\ Abs(added) <= Abs(v)
           /\ added # 0 => Sign(added) = -Sign(v)
           /\ velocity'.z * v >= 0
           /\ Abs(velocity'.z) <= Abs(v)]_vars

\* A frame of 0.5 s stopped a backward velocity of 20 units per second: the
\* unclamped deceleration (50 units per second) would have reversed it.
C16_Witness ==
    /\ calls = <<Ev("decceleration", "", 10, -40)>>
    /\ velocity.z = 0

\* C17: a tick with elapsed time 0 leaves the velocity, the position and
\* the orientation as they are, whatever the keys and the active state.
C17_ZeroFrameKeepsKinematics ==
    [][(Ticked(calls') /\ calls'[1].id = 0)
       => /\ velocity' = velocity
          /\ moved' = Still
          /\ turned' = 0]_vars

\* A frame of 0 s ran in Run at full speed with forward, left and the
\* modifier held.
C17_Witness ==
    /\ calls # <<>>
    /\ calls[1] = Ev("tick", "", 0, 0)
    /\ calls[2].name = "run"
    /\ currentState.name = "run"
    /\ keys.forward /\ keys.left /\ keys.shift
    /\ velocity.z = MaxSpeed

\* The transitions of the specification, as <<from, to>>.
Allowed ==
    {<<"none", "idle">>, <<"idle", "walking">>, <<"idle", "dance">>,
     <<"walking", "run">>, <<"walking", "idle">>, <<"run", "walking">>,
     <<"run", "idle">>, <<"dance", "idle">>}

\* C18: load completion, key events and ticks make only the transitions of
\* Allowed (Run is entered from Walking only, Dance from Idle only, and only
\* Idle with no previous state), and the Update of one tick makes at most
\* one transition: a step changes the active state along one of them.
C18_OnlyAllowedTransitions ==
    /\ [](/\ \A i \in At("Enter") :
                /\ <<calls[i].from, calls[i].name>> \in Allowed
                /\ calls[i].prev = 0 <=> calls[i].from = "none"
          /\ Cardinality({i \in At("Enter") :
                             \A j \in At("_Finished") : i < j}) <= 1)
    /\ [][currentState' = currentState
          \/ <<currentState.name, currentState'.name>> \in Allowed]_vars

\* A tick with forward held and the modifier released took Run to Walking.
C18_Witness ==
    /\ Ticked(calls)
    /\ \E i \in At("Enter") : calls[i].from = "run" /\ calls[i].name = "walking"
    /\ keys.forward /\ ~keys.shift

\* C19: a tick that runs before the FSM has an active state (before the
\* first Enter of Idle) leaves the velocity, the position, the orientation
\* and the actions of the mixer as they are.
C19_NoKinematicsBeforeIdle ==
    [][(calls' # <<>> /\ calls'[1].ev = "tick" /\ currentState = NoState)
       => /\ velocity' = velocity
          /\ moved' = Still
          /\ turned' = 0
          /\ animations' = animations]_vars

\* C20: a SetState call that ends with an exception leaves the machine as
\* it was: the active state is the one before the call, and no Exit hook
\* was called.
C20_FailedSetStateChangesNothing ==
    [][(calls' # <<>> /\ calls'[1].ev = "SetState" /\ thrown')
       => /\ currentState' = currentState
          /\ entered' = entered
          /\ \A i \in 1..Len(calls') : calls'[i].ev # "Exit"]_vars

====
